---------------------------- MODULE Spec2Model ----------------------------
(***************************************************************************)
(* A model of docs/source/version_0.1.0/get_ship_data.ipynb: the notebook  *)
(* that lists the raw EK60 files of the 2017 Pacific Hake Survey, filters  *)
(* them by date, converts each one to an MVBS product with its longitude   *)
(* and latitude tracks, and merges the per-file outputs into one dataset.  *)
(*                                                                         *)
(* Python strings are sequences of one-character strings, so that          *)
(* formatting (zfill), substring search (in) and path splitting (stem,     *)
(* name) are computed, not assumed.  One action stands for one notebook    *)
(* cell, except the main loop, which has one action per statement of its   *)
(* body so that an exception can be raised at each of them.                *)
(***************************************************************************)
EXTENDS Integers, Sequences, FiniteSets, TLC

VARIABLES
    pc,              \* the next cell to execute
    run,             \* how many times the notebook has been started
    start_datetime,  \* cell ba34828a
    end_datetime,    \* cell ba34828a
    dirs,            \* local disk: the directories that exist
    files,           \* local disk: the files, [dir, name, time]
    listing,         \* history: what fs.glob returned in this run
    s3rawfiles,      \* cells a595f70c and c3babd98
    date_list,       \* cell cf12ba38
    i,               \* main loop: index of the current file in s3rawfiles
    step,            \* main loop: the next statement of the body
    ed,              \* main loop: the EchoData object of the current file
    ds_Sv,           \* main loop: the calibrated dataset
    ds_MVBS,         \* main loop: the binned dataset
    out,             \* what the cells have printed in this run
    trace,           \* history: one record per loop iteration of this run
    MVBS_ds,         \* cell 1319bbba: the combined dataset
    fresh            \* history: no per-file output existed when this run began

vars == << pc, run, start_datetime, end_datetime, dirs, files, listing,
           s3rawfiles, date_list, i, step, ed, ds_Sv, ds_MVBS, out, trace,
           MVBS_ds, fresh >>

None == [none |-> TRUE]

-----------------------------------------------------------------------------
(* Strings *)

Digits == << "0", "1", "2", "3", "4", "5", "6", "7", "8", "9" >>

\* str(n) for a natural number n
RECURSIVE Str(_)
Str(n) == IF n < 10 THEN << Digits[n + 1] >>
          ELSE Str(n \div 10) \o << Digits[(n % 10) + 1] >>

\* s.zfill(width)
RECURSIVE Zfill(_, _)
Zfill(s, width) == IF Len(s) >= width THEN s ELSE Zfill(<< "0" >> \o s, width)

\* needle in hay, scanning the start positions from left to right
RECURSIVE FindFrom(_, _, _)
FindFrom(needle, hay, k) ==
    IF k + Len(needle) - 1 > Len(hay) THEN FALSE
    ELSE IF SubSeq(hay, k, k + Len(needle) - 1) = needle THEN TRUE
    ELSE FindFrom(needle, hay, k + 1)

StrIn(needle, hay) == FindFrom(needle, hay, 1)

\* the largest index of character c in s, 0 when there is none (str.rfind + 1)
RECURSIVE RFind(_, _, _)
RFind(c, s, k) == IF k = 0 THEN 0
                  ELSE IF s[k] = c THEN k
                  ELSE RFind(c, s, k - 1)

\* Path(p).name: what follows the last "/"
PathName(p) == SubSeq(p, RFind("/", p, Len(p)) + 1, Len(p))

\* Path(p).stem: the name without its last suffix; a name with no dot, or
\* whose only dot leads it, has no suffix
PathStem(p) ==
    LET name == PathName(p)
        dot  == RFind(".", name, Len(name))
    IN  IF dot > 1 /\ dot < Len(name) THEN SubSeq(name, 1, dot - 1) ELSE name

-----------------------------------------------------------------------------
(* Dates: datetime.datetime, datetime.timedelta *)

IsLeap(y) == y % 4 = 0 /\ (y % 100 # 0 \/ y % 400 = 0)

DaysInMonth(y, m) ==
    IF m = 2 THEN (IF IsLeap(y) THEN 29 ELSE 28)
    ELSE IF m \in {4, 6, 9, 11} THEN 30 ELSE 31

RECURSIVE DaysBeforeMonth(_, _)
DaysBeforeMonth(y, m) ==
    IF m = 1 THEN 0 ELSE DaysBeforeMonth(y, m - 1) + DaysInMonth(y, m - 1)

DaysBeforeYear(y) ==
    (y - 1) * 365 + ((y - 1) \div 4) - ((y - 1) \div 100) + ((y - 1) \div 400)

\* date.toordinal()
ToOrdinal(d) == DaysBeforeYear(d.year) + DaysBeforeMonth(d.year, d.month) + d.day

\* the minutes of a datetime since the start of day 0
Minutes(d) == ToOrdinal(d) * 1440 + d.hour * 60 + d.minute

\* (a - b).days: the whole days of the difference, rounded down
TimedeltaDays(a, b) == (Minutes(a) - Minutes(b)) \div 1440

\* d + dt.timedelta(days = x): the date moves, the time of day stays
PlusDays(d, x) ==
    LET n == ToOrdinal(d) + x
        y == CHOOSE yy \in (d.year - 1) .. (d.year + 1) :
                 DaysBeforeYear(yy) < n /\ n <= DaysBeforeYear(yy + 1)
        r == n - DaysBeforeYear(y)
        m == CHOOSE mm \in 1 .. 12 :
                 DaysBeforeMonth(y, mm) < r
                 /\ r <= DaysBeforeMonth(y, mm) + DaysInMonth(y, mm)
    IN  [year |-> y, month |-> m, day |-> r - DaysBeforeMonth(y, m),
         hour |-> d.hour, minute |-> d.minute]

\* str(date.month).zfill(2) + str(date.day).zfill(2)
MMDD(d) == Zfill(Str(d.month), 2) \o Zfill(Str(d.day), 2)

\* the number of iterations of "for x in range(0, (end - start).days + 1)"
DateRange(start, end) == TimedeltaDays(end, start) + 1

\* cell cf12ba38
DateList(start, end) ==
    [x \in 1 .. DateRange(start, end) |-> MMDD(PlusDays(start, x - 1))]

-----------------------------------------------------------------------------
(* Configuration: cells ba34828a and f019dd8f *)

\* ping_time_bin = '2s', in seconds
ping_time_bin == 2

\* start_datetime = dt.datetime(2017, 7, 24, 0, 0)
ConfigStart == [year |-> 2017, month |-> 7, day |-> 24, hour |-> 0, minute |-> 0]

\* end_datetime = dt.datetime(2017, 8, 24, 23, 59)
ConfigEnd == [year |-> 2017, month |-> 8, day |-> 24, hour |-> 23, minute |-> 59]

bucket ==
    << "n", "c", "e", "i", "-", "w", "c", "s", "d", "-", "a", "r", "c", "h", "i", "v", "e" >>

rawdirpath ==
    << "d", "a", "t", "a", "/", "r", "a", "w", "/", "B", "e", "l", "l", "_", "M", ".", "_", "S", "h",
       "i", "m", "a", "d", "a", "/", "S", "H", "1", "7", "0", "7", "/", "E", "K", "6", "0" >>

\* the literal year prefix of the filter, "D2017"
YearPrefix == << "D", "2", "0", "1", "7" >>

\* f"{bucket}/{rawdirpath}/{name}": a path as fs.glob returns it
RawPath(name) == bucket \o << "/" >> \o rawdirpath \o << "/" >> \o name

-----------------------------------------------------------------------------
(* Date filter: cell c3babd98 *)

\* the filter with all(...) written for any(...)
KeepFileAll(s3path, dl) ==
    \A k \in 1 .. Len(dl) : StrIn(YearPrefix \o dl[k], s3path)

\* any([f"D2017{datestr}" in s3path for datestr in date_list])
KeepFile(s3path, dl) ==
    \E k \in 1 .. Len(dl) : StrIn(YearPrefix \o dl[k], s3path)

\* [s3path for s3path in s3rawfiles if any(...)]
FilterFiles(paths, dl) == SelectSeq(paths, LAMBDA p : KeepFile(p, dl))

-----------------------------------------------------------------------------
(* The inputs of the date cells: datetimes and remote listings *)

MaxListing == 2

SampleDays == { << 1, 1 >>, << 2, 28 >>, << 2, 29 >>, << 3, 1 >>, << 7, 24 >>,
                << 7, 25 >>, << 7, 31 >>, << 8, 1 >>, << 12, 31 >> }

SampleTimes == { << 0, 0 >>, << 12, 0 >>, << 23, 59 >> }

Datetimes ==
    { [year |-> y, month |-> md[1], day |-> md[2], hour |-> hm[1], minute |-> hm[2]] :
          y \in {2016, 2017},
          md \in SampleDays,
          hm \in SampleTimes }

ValidDatetimes == { d \in Datetimes : d.day <= DaysInMonth(d.year, d.month) }

\* start <= end, both in one calendar year
DatetimePairs ==
    { p \in ValidDatetimes \X ValidDatetimes :
          p[1].year = p[2].year /\ Minutes(p[1]) <= Minutes(p[2]) }

\* The names of the remote files a listing is drawn from:
\*   S-D20170724-T1.raw         inside the range
\*   S-D20170725-T1.raw         inside the range
\*   S-D20170801-T1.raw         inside the range
\*   S-D20160724-T1.raw         another year
\*   S-D2017-0724.raw           year and day apart
\*   S-d20170724.raw            lower-case d
\*   ID20170725-D20170901.raw   the token of another day inside an identifier
SampleNames ==
    { << "S", "-", "D", "2", "0", "1", "7", "0", "7", "2", "4", "-", "T", "1", ".", "r", "a", "w" >>,
      << "S", "-", "D", "2", "0", "1", "7", "0", "7", "2", "5", "-", "T", "1", ".", "r", "a", "w" >>,
      << "S", "-", "D", "2", "0", "1", "7", "0", "8", "0", "1", "-", "T", "1", ".", "r", "a", "w" >>,
      << "S", "-", "D", "2", "0", "1", "6", "0", "7", "2", "4", "-", "T", "1", ".", "r", "a", "w" >>,
      << "S", "-", "D", "2", "0", "1", "7", "-", "0", "7", "2", "4", ".", "r", "a", "w" >>,
      << "S", "-", "d", "2", "0", "1", "7", "0", "7", "2", "4", ".", "r", "a", "w" >>,
      << "I", "D", "2", "0", "1", "7", "0", "7", "2", "5", "-", "D", "2", "0", "1", "7", "0", "9", "0", "1", ".", "r", "a", "w" >> }

\* the sequences of at most n distinct members of S
RECURSIVE Arrangements(_, _)
Arrangements(S, n) ==
    IF n = 0 THEN { << >> }
    ELSE LET shorter == Arrangements(S, n - 1)
         IN  shorter \cup { Append(s, x) : s \in shorter, x \in S }

DistinctSeqs(S, n) ==
    { s \in Arrangements(S, n) :
          \A a, b \in 1 .. Len(s) : a # b => s[a] # s[b] }

SampleListings ==
    { [k \in 1 .. Len(s) |-> RawPath(s[k])] : s \in DistinctSeqs(SampleNames, MaxListing) }

\* the value of every variable of a run before its first cell
RunStart ==
    /\ listing = << >>
    /\ s3rawfiles = << >>
    /\ date_list = << >>
    /\ i = 0
    /\ step = "for"
    /\ ed = None
    /\ ds_Sv = None
    /\ ds_MVBS = None
    /\ out = << >>
    /\ trace = << >>
    /\ MVBS_ds = None
    /\ fresh = TRUE

-----------------------------------------------------------------------------
(* Cells cf12ba38 and c3babd98 *)

Message(kind, arg) == [kind |-> kind, arg |-> arg]

DateListCell ==
    /\ pc = "dates"
    /\ date_list' = DateList(start_datetime, end_datetime)
    /\ pc' = "filter"
    /\ UNCHANGED << run, start_datetime, end_datetime, dirs, files, listing,
                    s3rawfiles, i, step, ed, ds_Sv, ds_MVBS, out, trace,
                    MVBS_ds, fresh >>

\* the filter, then print(f"There are {len(s3rawfiles)} target raw files available")
FilterCell ==
    /\ pc = "filter"
    /\ s3rawfiles' = FilterFiles(s3rawfiles, date_list)
    /\ out' = Append(out, Message("available", Str(Len(s3rawfiles'))))
    /\ pc' = "loop"
    /\ UNCHANGED << run, start_datetime, end_datetime, dirs, files, listing,
                    date_list, i, step, ed, ds_Sv, ds_MVBS, trace, MVBS_ds, fresh >>

-----------------------------------------------------------------------------
(* Output layout: cell 4a820b07.  A directory is the sequence of its path  *)
(* components under the working directory, which always exists.            *)

\* './' + f"{data_type}_range=..._ping=..._start=..._end=..."
base_dpath == << "Hake_range=0.2_ping=2s_start=2017-07-24-00-00_end=2017-08-24-23-59" >>

calibrated_dpath == base_dpath \o << "HakeSurvey" >>

\* the longitude directory given the name of the latitude directory
lon_dpath_Lat == base_dpath \o << "Lat" >>

lon_dpath == base_dpath \o << "Lon" >>

lat_dpath == base_dpath \o << "Lat" >>

Parent(path) == SubSeq(path, 1, Len(path) - 1)

\* mkdir without exist_ok: FileExistsError when the directory exists
MkdirStrict(ds, path, exist_ok) ==
    IF path \in ds \/ (SubSeq(path, 1, Len(path) - 1) # << >>
                          /\ SubSeq(path, 1, Len(path) - 1) \notin ds)
    THEN [ok |-> FALSE, dirs |-> ds]
    ELSE [ok |-> TRUE, dirs |-> ds \cup {path}]

\* Path.mkdir(exist_ok = ...), parents = False: [ok, dirs]
Mkdir(ds, path, exist_ok) ==
    IF path \in ds THEN [ok |-> exist_ok, dirs |-> ds]
    ELSE IF Parent(path) # << >> /\ Parent(path) \notin ds THEN [ok |-> FALSE, dirs |-> ds]
    ELSE [ok |-> TRUE, dirs |-> ds \cup {path}]

\* the four mkdir calls in order; the first that raises ends the cell
RECURSIVE MkdirEach(_, _)
MkdirEach(ds, paths) ==
    IF paths = << >> THEN [ok |-> TRUE, dirs |-> ds]
    ELSE LET r == Mkdir(ds, Head(paths), TRUE)
         IN  IF r.ok THEN MkdirEach(r.dirs, Tail(paths)) ELSE r

LayoutBuilder(ds) ==
    MkdirEach(ds, << base_dpath, calibrated_dpath, lon_dpath, lat_dpath >>)

OutputDirs == { calibrated_dpath, lon_dpath, lat_dpath }

LayoutCell ==
    /\ pc = "layout"
    /\ LET r == LayoutBuilder(dirs)
       IN  /\ dirs' = r.dirs
           /\ pc' = IF r.ok THEN "glob" ELSE "aborted"
    /\ fresh' = (\A f \in files : f.dir \notin OutputDirs)
    /\ UNCHANGED << run, start_datetime, end_datetime, files, listing, s3rawfiles,
                    date_list, i, step, ed, ds_Sv, ds_MVBS, out, trace, MVBS_ds >>

-----------------------------------------------------------------------------
(* Remote listing: cells f019dd8f and a595f70c *)

MaxFiles == 3

\* The bucket's raw files in the order fs.glob lists them:
\*   S-D20170723-T1.raw   the day before the configured range
\*   S-D20170724-T1.raw   its first day
\*   S-D20170801-T1.raw   a day inside it
\*   S-D20170824-T1.raw   its last day
RemoteNames ==
    << << "S", "-", "D", "2", "0", "1", "7", "0", "7", "2", "3", "-", "T", "1", ".", "r", "a", "w" >>,
       << "S", "-", "D", "2", "0", "1", "7", "0", "7", "2", "4", "-", "T", "1", ".", "r", "a", "w" >>,
       << "S", "-", "D", "2", "0", "1", "7", "0", "8", "0", "1", "-", "T", "1", ".", "r", "a", "w" >>,
       << "S", "-", "D", "2", "0", "1", "7", "0", "8", "2", "4", "-", "T", "1", ".", "r", "a", "w" >> >>

\* the subsequences of s
RECURSIVE SubSeqs(_)
SubSeqs(s) ==
    IF s = << >> THEN { << >> }
    ELSE LET rest == SubSeqs(Tail(s))
         IN  rest \cup { << Head(s) >> \o r : r \in rest }

\* what the bucket can hold when it is listed: fs.glob(".../*.raw")
Listings ==
    { [k \in 1 .. Len(s) |-> RawPath(s[k])] :
          s \in { q \in SubSeqs(RemoteNames) : Len(q) <= MaxFiles } }

GlobCell ==
    /\ pc = "glob"
    /\ \E l \in Listings :
           /\ s3rawfiles' = l
           /\ listing' = l
    /\ pc' = "dates"
    /\ UNCHANGED << run, start_datetime, end_datetime, dirs, files, date_list, i,
                    step, ed, ds_Sv, ds_MVBS, out, trace, MVBS_ds, fresh >>

-----------------------------------------------------------------------------
(* Per-file conversion: cell 85e3483e *)

\* the least member of a non-empty set of integers
Min(S) == CHOOSE x \in S : \A y \in S : x <= y

Max(S) == CHOOSE x \in S : \A y \in S : x >= y

\* the members of a set of integers in ascending order
RECURSIVE Ascending(_)
Ascending(S) ==
    IF S = {} THEN << >> ELSE << Min(S) >> \o Ascending(S \ {Min(S)})

Range(s) == { s[k] : k \in 1 .. Len(s) }

\* What ep.open_raw reads from a remote file: the ping times of the echo
\* data and the times (time1) of the Platform group's position fixes, in
\* seconds.  The k-th file of the bucket covers seconds 10k .. 10k + 4.
RawContent(s3path) ==
    LET k == CHOOSE n \in 1 .. Len(RemoteNames) : RawPath(RemoteNames[n]) = s3path
    IN  [ping_time |-> << 10 * k + 1, 10 * k + 2, 10 * k + 3 >>,
         time1     |-> << 10 * k, 10 * k + 4 >>]

\* ep.commongrid.compute_MVBS: the pings are averaged in bins of
\* ping_time_bin seconds, each labelled by the start of the bin
BinTimes(ping_time, bin) == Ascending({ (p \div bin) * bin : p \in Range(ping_time) })

\* the output name built from raw_fpath.name, suffix and all
OutNameKeepsSuffix(s3path) ==
    << "M", "V", "B", "S", "_" >> \o PathName(s3path) \o << ".", "n", "c" >>

\* f"MVBS_{raw_fpath.stem}.nc"
OutName(s3path) == << "M", "V", "B", "S", "_" >> \o PathStem(s3path) \o << ".", "n", "c" >>

File(dir, name, time) == [dir |-> dir, name |-> name, time |-> time]

\* a write that leaves no other file in the directory
ToNetcdfAlone(fs, dir, name, time) ==
    { f \in fs : f.dir # dir } \cup { [dir |-> dir, name |-> name, time |-> time] }

\* to_netcdf(dir / name): the file is created, or replaced when it exists
ToNetcdf(fs, dir, name, time) ==
    { f \in fs : ~(f.dir = dir /\ f.name = name) } \cup { File(dir, name, time) }

\* the statements of the try block that can raise
RaisingSteps ==
    { "open_raw", "compute_Sv", "compute_MVBS", "write_MVBS", "write_lon", "write_lat" }

\* a try block that ends after open_raw
CatchesOnlyOpenRaw(s) == s = "open_raw"

\* "except Exception" encloses every statement of the body
Catches(s) == s \in RaisingSteps

raw_fpath == s3rawfiles[i]

\* the loop body with the latitude written before the longitude
NextStepLatFirst(s) ==
    CASE s = "open_raw"     -> "compute_Sv"
      [] s = "compute_Sv"   -> "compute_MVBS"
      [] s = "compute_MVBS" -> "write_MVBS"
      [] s = "write_MVBS"   -> "write_lat"
      [] s = "write_lat"    -> "write_lon"
      [] s = "write_lon"    -> "print"
      [] s = "print"        -> "for"

\* the statements of the loop body in the order they are written
NextStep(s) ==
    CASE s = "open_raw"     -> "compute_Sv"
      [] s = "compute_Sv"   -> "compute_MVBS"
      [] s = "compute_MVBS" -> "write_MVBS"
      [] s = "write_MVBS"   -> "write_lon"
      [] s = "write_lon"    -> "write_lat"
      [] s = "write_lat"    -> "print"
      [] s = "print"        -> "for"

Record(field, value) == [trace EXCEPT ![Len(trace)][field] = value]

Wrote(dir) == Record("wrote", trace[Len(trace)].wrote \cup {dir})

\* for s3rawfpath in s3rawfiles: the next file, or the end of the loop
ForNext ==
    /\ pc = "loop"
    /\ step = "for"
    /\ IF i < Len(s3rawfiles)
       THEN /\ i' = i + 1
            /\ step' = "open_raw"
            /\ trace' = Append(trace, [file |-> s3rawfiles[i + 1], wrote |-> {},
                                       status |-> "running"])
            /\ pc' = pc
       ELSE /\ pc' = "merge"
            /\ UNCHANGED << i, step, trace >>
    /\ UNCHANGED << run, start_datetime, end_datetime, dirs, files, listing,
                    s3rawfiles, date_list, ed, ds_Sv, ds_MVBS, out, MVBS_ds, fresh >>

OpenRaw ==
    /\ pc = "loop"
    /\ step = "open_raw"
    /\ ed' = RawContent(raw_fpath)
    /\ step' = NextStep(step)
    /\ UNCHANGED << pc, run, start_datetime, end_datetime, dirs, files, listing,
                    s3rawfiles, date_list, i, ds_Sv, ds_MVBS, out, trace, MVBS_ds,
                    fresh >>

ComputeSv ==
    /\ pc = "loop"
    /\ step = "compute_Sv"
    /\ ds_Sv' = [ping_time |-> ed.ping_time]
    /\ step' = NextStep(step)
    /\ UNCHANGED << pc, run, start_datetime, end_datetime, dirs, files, listing,
                    s3rawfiles, date_list, i, ed, ds_MVBS, out, trace, MVBS_ds,
                    fresh >>

ComputeMVBS ==
    /\ pc = "loop"
    /\ step = "compute_MVBS"
    /\ ds_MVBS' = [ping_time |-> BinTimes(ds_Sv.ping_time, ping_time_bin)]
    /\ step' = NextStep(step)
    /\ UNCHANGED << pc, run, start_datetime, end_datetime, dirs, files, listing,
                    s3rawfiles, date_list, i, ed, ds_Sv, out, trace, MVBS_ds,
                    fresh >>

\* ds_MVBS.to_netcdf(calibrated_dpath / f"MVBS_{raw_fpath.stem}.nc")
WriteMVBS ==
    /\ pc = "loop"
    /\ step = "write_MVBS"
    /\ calibrated_dpath \in dirs
    /\ files' = ToNetcdf(files, calibrated_dpath, OutName(raw_fpath), ds_MVBS.ping_time)
    /\ trace' = Wrote(calibrated_dpath)
    /\ step' = NextStep(step)
    /\ UNCHANGED << pc, run, start_datetime, end_datetime, dirs, listing,
                    s3rawfiles, date_list, i, ed, ds_Sv, ds_MVBS, out, MVBS_ds,
                    fresh >>

\* ds_lon = ed['Platform'].longitude; ds_lon.to_netcdf(lon_dpath / ...)
WriteLon ==
    /\ pc = "loop"
    /\ step = "write_lon"
    /\ lon_dpath \in dirs
    /\ files' = ToNetcdf(files, lon_dpath, OutName(raw_fpath), ed.time1)
    /\ trace' = Wrote(lon_dpath)
    /\ step' = NextStep(step)
    /\ UNCHANGED << pc, run, start_datetime, end_datetime, dirs, listing,
                    s3rawfiles, date_list, i, ed, ds_Sv, ds_MVBS, out, MVBS_ds,
                    fresh >>

\* ds_lat = ed['Platform'].latitude; ds_lat.to_netcdf(lat_dpath / ...)
WriteLat ==
    /\ pc = "loop"
    /\ step = "write_lat"
    /\ lat_dpath \in dirs
    /\ files' = ToNetcdf(files, lat_dpath, OutName(raw_fpath), ed.time1)
    /\ trace' = Wrote(lat_dpath)
    /\ step' = NextStep(step)
    /\ UNCHANGED << pc, run, start_datetime, end_datetime, dirs, listing,
                    s3rawfiles, date_list, i, ed, ds_Sv, ds_MVBS, out, MVBS_ds,
                    fresh >>

\* print(f"MVBS_{raw_fpath.stem}.nc created")
PrintCreated ==
    /\ pc = "loop"
    /\ step = "print"
    /\ out' = Append(out, Message("created", OutName(raw_fpath)))
    /\ trace' = Record("status", "ok")
    /\ step' = NextStep(step)
    /\ UNCHANGED << pc, run, start_datetime, end_datetime, dirs, files, listing,
                    s3rawfiles, date_list, i, ed, ds_Sv, ds_MVBS, MVBS_ds, fresh >>

\* The current statement raises.  Inside the try block the handler prints
\* f"Failed to process raw file {raw_fpath.name}: {e}" and the loop goes on;
\* an exception that no handler catches ends the run.
Raise ==
    /\ pc = "loop"
    /\ step \in RaisingSteps
    /\ trace' = Record("status", "failed")
    /\ IF Catches(step)
       THEN /\ out' = Append(out, Message("failed", PathName(raw_fpath)))
            /\ step' = "for"
            /\ pc' = pc
       ELSE /\ pc' = "aborted"
            /\ UNCHANGED << out, step >>
    /\ UNCHANGED << run, start_datetime, end_datetime, dirs, files, listing,
                    s3rawfiles, date_list, i, ed, ds_Sv, ds_MVBS, MVBS_ds, fresh >>

-----------------------------------------------------------------------------
(* Merger: cells 1319bbba and ed81b817 *)

\* the characters of the output names in code point order
CodePoints ==
    << "-", ".", "0", "1", "2", "3", "4", "5", "6", "7", "8", "9",
       "B", "D", "M", "S", "T", "V", "_", "c", "n" >>

CodePoint(c) == CHOOSE k \in 1 .. Len(CodePoints) : CodePoints[k] = c

\* a < b for two strings
RECURSIVE StrLess(_, _)
StrLess(a, b) ==
    IF b = << >> THEN FALSE
    ELSE IF a = << >> THEN TRUE
    ELSE IF Head(a) = Head(b) THEN StrLess(Tail(a), Tail(b))
    ELSE CodePoint(Head(a)) < CodePoint(Head(b))

StartsWith(s, prefix) == Len(prefix) <= Len(s) /\ SubSeq(s, 1, Len(prefix)) = prefix

EndsWith(s, suffix) ==
    Len(suffix) <= Len(s) /\ SubSeq(s, Len(s) - Len(suffix) + 1, Len(s)) = suffix

\* glob's match of a name against prefix + "*" + suffix; a leading "*" does
\* not match a name that starts with a dot
GlobMatch(name, prefix, suffix) ==
    /\ Len(name) >= Len(prefix) + Len(suffix)
    /\ StartsWith(name, prefix)
    /\ EndsWith(name, suffix)
    /\ (prefix = << >> => Head(name) # ".")

\* sorted(glob(pattern)): the matching files of a directory ordered by name
RECURSIVE SortedByName(_)
SortedByName(fs) ==
    IF fs = {} THEN << >>
    ELSE LET first == CHOOSE f \in fs : \A g \in fs : ~StrLess(g.name, f.name)
         IN  << first >> \o SortedByName(fs \ {first})

\* a coordinate that never decreases (pandas is_monotonic_increasing)
Monotonic(time) == \A a, b \in 1 .. Len(time) : a < b => time[a] <= time[b]

RECURSIVE Concat(_)
Concat(seqs) == IF seqs = << >> THEN << >> ELSE Head(seqs) \o Concat(Tail(seqs))

\* the datasets ordered by the first value of their coordinate
RECURSIVE ByFirstValue(_)
ByFirstValue(times) ==
    IF times = {} THEN << >>
    ELSE LET first == CHOOSE t \in times : \A u \in times : t[1] <= u[1]
         IN  << first >> \o ByFirstValue(times \ {first})

\* combine = 'nested': the files concatenated in file order, unchecked
CombineNested(times) == [ok |-> TRUE, time |-> Concat(times)]

\* combine = 'by_coords' on the time coordinates of the opened files, given
\* in file order: [ok, time].  Datasets with one and the same coordinate are
\* merged, not concatenated.  Otherwise every coordinate must be monotonic
\* and not empty, the datasets are ordered by their first coordinate value
\* (two that start at the same value cannot be ordered: ValueError), and the
\* concatenation must be monotonic again (ValueError if not).
CombineByCoords(times) ==
    IF \A k \in 1 .. Len(times) : times[k] = times[1]
    THEN [ok |-> TRUE, time |-> times[1]]
    ELSE IF \/ \E k \in 1 .. Len(times) : times[k] = << >> \/ ~Monotonic(times[k])
            \/ \E a, b \in 1 .. Len(times) : times[a] # times[b] /\ times[a][1] = times[b][1]
    THEN [ok |-> FALSE, time |-> << >>]
    ELSE LET all == Concat(ByFirstValue(Range(times)))
         IN  [ok |-> Monotonic(all), time |-> IF Monotonic(all) THEN all ELSE << >>]

\* xr.open_mfdataset(str(dir / pattern), combine = 'by_coords'): OSError when
\* the pattern matches no file
OpenMfdataset(fs, dir, prefix, suffix) ==
    LET paths == SortedByName({ f \in fs : f.dir = dir /\ GlobMatch(f.name, prefix, suffix) })
    IN  IF paths = << >> THEN [ok |-> FALSE, time |-> << >>]
        ELSE CombineByCoords([k \in 1 .. Len(paths) |-> paths[k].time])

\* track.interp(time1 = ping_time): a value at every ping time, missing
\* (NaN) outside the span of the track
Interp(time1, ping_time) ==
    [ping_time |-> ping_time,
     values    |-> [k \in 1 .. Len(ping_time) |->
                       IF Min(Range(time1)) <= ping_time[k] /\ ping_time[k] <= Max(Range(time1))
                       THEN "value" ELSE "nan"]]

\* ds[name] = da: the values of da at the coordinate of ds, which stays
Aligned(ds, da) ==
    [k \in 1 .. Len(ds.ping_time) |->
        IF \E j \in 1 .. Len(da.ping_time) : da.ping_time[j] = ds.ping_time[k]
        THEN da.values[CHOOSE j \in 1 .. Len(da.ping_time) : da.ping_time[j] = ds.ping_time[k]]
        ELSE "nan"]

Suffix == << ".", "n", "c" >>

MergeCell ==
    /\ pc = "merge"
    /\ LET mvbs == OpenMfdataset(files, calibrated_dpath, << "M", "V", "B", "S", "_" >>, Suffix)
           longitude == OpenMfdataset(files, lon_dpath, << >>, Suffix)
           latitude == OpenMfdataset(files, lat_dpath, << >>, Suffix)
           opened == [ping_time |-> mvbs.time]
       IN  IF mvbs.ok /\ longitude.ok /\ latitude.ok
           THEN /\ MVBS_ds' =
                       [ping_time |-> opened.ping_time,
                        longitude |-> Aligned(opened, Interp(longitude.time, opened.ping_time)),
                        latitude  |-> Aligned(opened, Interp(latitude.time, opened.ping_time)),
                        history   |-> "Interpolated from Platform latitude/longitude."]
                /\ pc' = "write"
           ELSE /\ MVBS_ds' = IF mvbs.ok THEN opened ELSE MVBS_ds
                /\ pc' = "aborted"
    /\ UNCHANGED << run, start_datetime, end_datetime, dirs, files, listing,
                    s3rawfiles, date_list, i, step, ed, ds_Sv, ds_MVBS, out, trace,
                    fresh >>

FinalName ==
    << "c", "o", "n", "c", "a", "t", "e", "n", "a", "t", "e", "d", "_",
       "M", "V", "B", "S", ".", "n", "c" >>

\* MVBS_ds.to_netcdf(base_dpath / "concatenated_MVBS.nc")
WriteFinalCell ==
    /\ pc = "write"
    /\ files' = ToNetcdf(files, base_dpath, FinalName, MVBS_ds.ping_time)
    /\ pc' = "done"
    /\ UNCHANGED << run, start_datetime, end_datetime, dirs, listing, s3rawfiles,
                    date_list, i, step, ed, ds_Sv, ds_MVBS, out, trace, MVBS_ds,
                    fresh >>

-----------------------------------------------------------------------------
(* The notebook, run from its first cell to its last, and run again *)

MaxRuns == 2

\* Run All once more: the disk is what the runs before left
Rerun ==
    /\ pc \in {"done", "aborted"}
    /\ run < MaxRuns
    /\ run' = run + 1
    /\ pc' = "layout"
    /\ listing' = << >>
    /\ s3rawfiles' = << >>
    /\ date_list' = << >>
    /\ i' = 0
    /\ step' = "for"
    /\ ed' = None
    /\ ds_Sv' = None
    /\ ds_MVBS' = None
    /\ out' = << >>
    /\ trace' = << >>
    /\ MVBS_ds' = None
    /\ fresh' = TRUE
    /\ UNCHANGED << start_datetime, end_datetime, dirs, files >>

Init ==
    /\ pc = "layout"
    /\ run = 1
    /\ start_datetime = ConfigStart
    /\ end_datetime = ConfigEnd
    /\ dirs = {}
    /\ files = {}
    /\ RunStart

Next ==
    \/ LayoutCell
    \/ GlobCell
    \/ DateListCell
    \/ FilterCell
    \/ ForNext
    \/ OpenRaw
    \/ ComputeSv
    \/ ComputeMVBS
    \/ WriteMVBS
    \/ WriteLon
    \/ WriteLat
    \/ PrintCreated
    \/ Raise
    \/ MergeCell
    \/ WriteFinalCell
    \/ Rerun

Spec == Init /\ [][Next]_vars

-----------------------------------------------------------------------------
(* The date cells alone, on sampled start and end datetimes and listings *)

AllDirs == { base_dpath, calibrated_dpath, lon_dpath, lat_dpath }

\* cell cf12ba38 on every sampled pair of datetimes
InitDates ==
    /\ pc = "dates"
    /\ run = 1
    /\ \E p \in DatetimePairs :
           /\ start_datetime = p[1]
           /\ end_datetime = p[2]
    /\ dirs = AllDirs
    /\ files = {}
    /\ RunStart

NextDates == DateListCell

SpecDates == InitDates /\ [][NextDates]_vars

\* the days of July and August 2017 at midnight
FilterDatetimePairs ==
    { p \in DatetimePairs :
          \A k \in 1 .. 2 : /\ p[k].year = 2017
                            /\ p[k].month \in {7, 8}
                            /\ p[k].hour = 0 }

\* cells cf12ba38 and c3babd98 on every sampled range and listing
InitFilter ==
    /\ pc = "dates"
    /\ run = 1
    /\ \E p \in FilterDatetimePairs :
           /\ start_datetime = p[1]
           /\ end_datetime = p[2]
    /\ dirs = AllDirs
    /\ files = {}
    /\ \E l \in SampleListings :
           /\ listing = l
           /\ s3rawfiles = l
    /\ date_list = << >>
    /\ i = 0
    /\ step = "for"
    /\ ed = None
    /\ ds_Sv = None
    /\ ds_MVBS = None
    /\ out = << >>
    /\ trace = << >>
    /\ MVBS_ds = None
    /\ fresh = TRUE

NextFilter == DateListCell \/ FilterCell

SpecFilter == InitFilter /\ [][NextFilter]_vars

-----------------------------------------------------------------------------
(* The Merger alone, on per-file outputs with sampled time coordinates *)

\* The time coordinates a per-file output is given: three ranges that do
\* not overlap, one that shares its ends with two of them, and one that
\* lies across two of them.
SampleTimeRanges ==
    { << 0, 2, 4 >>, << 6, 8 >>, << 10, 12, 14 >>, << 4, 6 >>, << 3, 7 >> }

\* the three outputs of one raw file, all on one time coordinate
OutputsOf(name, time) ==
    { File(d, OutName(RawPath(name)), time) : d \in OutputDirs }

\* the disks that hold the outputs of at most MaxFiles raw files, no two
\* of them on the same time coordinate
MergeInputs ==
    UNION { { UNION { OutputsOf(q[k], t[k]) : k \in 1 .. Len(q) } :
                  t \in { u \in DistinctSeqs(SampleTimeRanges, MaxFiles) : Len(u) = Len(q) } } :
            q \in { s \in SubSeqs(RemoteNames) : Len(s) >= 1 /\ Len(s) <= MaxFiles } }

InitMerge ==
    /\ pc = "merge"
    /\ run = 1
    /\ start_datetime = ConfigStart
    /\ end_datetime = ConfigEnd
    /\ dirs = AllDirs
    /\ files \in MergeInputs
    /\ RunStart

NextMerge == MergeCell \/ WriteFinalCell

SpecMerge == InitMerge /\ [][NextMerge]_vars

-----------------------------------------------------------------------------
(* Properties *)

\* s occurs in t at position j
OccursAt(s, t, j) ==
    /\ j >= 1
    /\ j + Len(s) - 1 <= Len(t)
    /\ \A n \in 1 .. Len(s) : t[j + n - 1] = s[n]

\* the last component of a path: what follows its last "/"
BaseName(p) ==
    LET slashes == { j \in 1 .. Len(p) : p[j] = "/" }
    IN  SubSeq(p, IF slashes = {} THEN 1 ELSE Max(slashes) + 1, Len(p))

\* the name holds "D2017" followed by one of the tokens
HasDateToken(name, tokens) ==
    \E k \in 1 .. Len(tokens) : \E j \in 1 .. Len(name) :
        OccursAt(<< "D", "2", "0", "1", "7" >> \o tokens[k], name, j)

Position(s, x) == CHOOSE k \in 1 .. Len(s) : s[k] = x

\* C1: once the date filter has run, a listed file is in the filtered list
\* if and only if its name holds "D2017" followed by one of the generated
\* MMDD tokens; the filtered list holds no file that was not listed, holds no
\* file twice, and keeps the files in their listing order.
C1_DateFilterExact ==
    pc = "loop" =>
        /\ \A k \in 1 .. Len(listing) :
               (listing[k] \in Range(s3rawfiles))
                   <=> HasDateToken(BaseName(listing[k]), date_list)
        /\ Range(s3rawfiles) \subseteq Range(listing)
        /\ \A a, b \in 1 .. Len(s3rawfiles) :
               a < b => Position(listing, s3rawfiles[a]) < Position(listing, s3rawfiles[b])

\* C1 witness: the range spans several days, and of two listed files the
\* filter kept one and dropped one that bears the year prefix (a near miss).
C1_Witness ==
    /\ pc = "loop"
    /\ Len(date_list) >= 2
    /\ Len(listing) = 2
    /\ Len(s3rawfiles) = 1
    /\ \E k \in 1 .. 2 :
           /\ listing[k] \notin Range(s3rawfiles)
           /\ \E j \in 1 .. Len(listing[k]) : OccursAt(<< "D", "2", "0", "1", "7" >>, listing[k], j)

\* the token of month m, day d: two digits each
Token(m, d) ==
    << Digits[(m \div 10) + 1], Digits[(m % 10) + 1],
       Digits[(d \div 10) + 1], Digits[(d % 10) + 1] >>

\* the (month, day) pairs of the calendar days from the day of a through the
\* day of b, both of year y
CalendarDays(y, a, b) ==
    { md \in (1 .. 12) \X (1 .. 31) :
          /\ md[2] <= (IF md[1] = 2
                       THEN (IF y % 4 = 0 /\ (y % 100 # 0 \/ y % 400 = 0) THEN 29 ELSE 28)
                       ELSE IF md[1] \in {4, 6, 9, 11} THEN 30 ELSE 31)
          /\ md[1] * 100 + md[2] >= a.month * 100 + a.day
          /\ md[1] * 100 + md[2] <= b.month * 100 + b.day }

\* C2: for start <= end in one calendar year, whatever the times of day,
\* the token list holds exactly one MMDD token for every calendar day from
\* the day of start through the day of end, and no other token.
C2_EveryCalendarDay ==
    pc = "filter" =>
        LET days == CalendarDays(start_datetime.year, start_datetime, end_datetime)
        IN  /\ Len(date_list) = Cardinality(days)
            /\ Range(date_list) = { Token(md[1], md[2]) : md \in days }

\* the names of the files in output directory d ("HakeSurvey", "Lon", "Lat")
NamesIn(d) == { f.name : f \in { g \in files : Len(g.dir) = 2 /\ g.dir[2] = d } }

\* "MVBS_<stem>.nc" for a listed "<stem>.raw"
Expected(s3path) ==
    << "M", "V", "B", "S", "_" >>
        \o SubSeq(BaseName(s3path), 1, Len(BaseName(s3path)) - 4)
        \o << ".", "n", "c" >>

LoopEnded == pc \in {"merge", "write", "done", "aborted"}

\* C3: an exception at any step of an iteration is caught, a failure
\* message naming the file is printed and the loop goes on: the iterations so
\* far are the first files of the filtered list, one each and in order,
\* every one that failed has its message, and the loop ends only after the
\* last file.
C3_FailureIsolation ==
    /\ Len(trace) = i
    /\ \A k \in 1 .. Len(trace) : trace[k].file = s3rawfiles[k]
    /\ LoopEnded => Len(trace) = Len(s3rawfiles)
    /\ \A k \in 1 .. Len(trace) :
           trace[k].status = "failed" =>
               /\ k + 1 <= Len(out)
               /\ out[k + 1] = [kind |-> "failed", arg |-> BaseName(trace[k].file)]

\* C3 witness: the loop ended after three files, of which the first failed
\* after writing some output, the second failed before writing any, and the
\* third succeeded.
C3_Witness ==
    /\ pc = "merge"
    /\ Len(trace) = 3
    /\ trace[1].status = "failed" /\ trace[1].wrote # {}
    /\ trace[2].status = "failed" /\ trace[2].wrote = {}
    /\ trace[3].status = "ok"

\* C4: a file whose iteration completed without an exception has exactly
\* its three outputs HakeSurvey/, Lon/ and Lat/MVBS_<stem>.nc under the root,
\* and "MVBS_<stem>.nc created" is printed for a file if and only if the
\* iteration wrote all three.
C4_SuccessfulOutputs ==
    \A k \in 1 .. Len(trace) :
        LET name == Expected(trace[k].file)
            held == { f \in files : f.name = name }
        IN  /\ trace[k].status = "ok" =>
                /\ Cardinality(held) = 3
                /\ { f.dir : f \in held }
                       = { base_dpath \o << d >> : d \in {"HakeSurvey", "Lon", "Lat"} }
            /\ trace[k].status # "running" =>
                ((out[k + 1] = [kind |-> "created", arg |-> name])
                     <=> Cardinality(trace[k].wrote) = 3)
            /\ trace[k].status = "running" => Len(out) = k

\* C4 witness: a file succeeded after another one failed with two of its
\* outputs written.
C4_Witness ==
    /\ pc = "merge"
    /\ \E k \in 1 .. Len(trace) :
           trace[k].status = "failed" /\ Cardinality(trace[k].wrote) = 2
    /\ \E k \in 1 .. Len(trace) : trace[k].status = "ok"

\* C5: when the filtered list is empty the run processes no file and fails
\* at the Merger, so that the final file is not written, also when the
\* output tree exists from an earlier run.
C5_EmptyListingFails ==
    (pc \in {"loop", "merge", "write", "done", "aborted"} /\ s3rawfiles = << >>) =>
        /\ trace = << >>
        /\ pc \notin {"write", "done"}

\* C6 as claimed: when the Merger starts, the three output directories hold
\* the same names.
C6_SameNames ==
    pc = "merge" =>
        /\ NamesIn("HakeSurvey") = NamesIn("Lon")
        /\ NamesIn("HakeSurvey") = NamesIn("Lat")

\* C6: when the Merger starts, every name in Lat is in Lon and every name
\* in Lon is in HakeSurvey; the output of every file that succeeded is in all
\* three; and the three directories hold the same names when they were
\* empty at the start and no file failed after writing some of its outputs.
C6_PairedAtMerge ==
    pc = "merge" =>
        /\ NamesIn("Lat") \subseteq NamesIn("Lon")
        /\ NamesIn("Lon") \subseteq NamesIn("HakeSurvey")
        /\ \A k \in 1 .. Len(trace) :
               trace[k].status = "ok" => Expected(trace[k].file) \in NamesIn("Lat")
        /\ (fresh /\ \A k \in 1 .. Len(trace) : Cardinality(trace[k].wrote) \in {0, 3})
               => NamesIn("HakeSurvey") = NamesIn("Lat")

\* C6 witness: the Merger starts with a BinnedProduct that has no longitude
\* track and another one that has both tracks.
C6_Witness ==
    /\ pc = "merge"
    /\ NamesIn("HakeSurvey") \ NamesIn("Lon") # {}
    /\ NamesIn("Lat") # {}

\* C7: the Output Layout Builder, run when the root and its three
\* subdirectories exist, raises no error and leaves the directories and the
\* files as they are; and a second run of it on the tree it has built
\* changes nothing.
C7_LayoutIdempotent ==
    [][ /\ (pc = "layout"
               /\ { base_dpath \o s : s \in { << >>, << "HakeSurvey" >>, << "Lon" >>, << "Lat" >> } }
                      \subseteq dirs)
            => (pc' = "glob" /\ dirs' = dirs /\ files' = files)
        /\ (pc = "layout" /\ pc' = "glob")
            => (LayoutBuilder(dirs').ok /\ LayoutBuilder(dirs').dirs = dirs')
      ]_vars

\* C7 witness: the builder has run a second time, on a tree that holds
\* files.
C7_Witness ==
    /\ run = 2
    /\ pc = "glob"
    /\ files # {}
    /\ Cardinality(dirs) = 4

\* the names of the BinnedProduct files of the iterations that satisfy P
ProductsOf(P(_)) == { Expected(trace[k].file) : k \in { n \in 1 .. Len(trace) : P(trace[n]) } }

\* C9 as claimed: from empty output directories, after the loop the
\* calibrated-products directory holds exactly the BinnedProduct files of
\* the successfully processed files.
C9_OnePerSuccess ==
    (fresh /\ pc = "merge") =>
        NamesIn("HakeSurvey") = ProductsOf(LAMBDA t : t.status = "ok")

\* C9: from empty output directories, after the loop the calibrated-products
\* directory holds exactly the BinnedProduct files of the iterations that
\* wrote one: those of every file that succeeded and of every file that
\* failed at a later step, and none of a file that failed before.
C9_OnePerWrittenProduct ==
    (fresh /\ pc = "merge") =>
        /\ NamesIn("HakeSurvey")
               = ProductsOf(LAMBDA t : \E d \in t.wrote : d[Len(d)] = "HakeSurvey")
        /\ ProductsOf(LAMBDA t : t.status = "ok") \subseteq NamesIn("HakeSurvey")
        /\ \A k \in 1 .. Len(trace) :
               /\ (trace[k].status = "failed" /\ trace[k].wrote # {})
                      => Expected(trace[k].file) \in NamesIn("HakeSurvey")
               /\ (trace[k].status = "failed" /\ trace[k].wrote = {})
                      => Expected(trace[k].file) \notin NamesIn("HakeSurvey")

\* C9 witness: of three files one succeeded, one failed after its
\* BinnedProduct was written and one failed before.
C9_Witness ==
    /\ fresh
    /\ pc = "merge"
    /\ \E a, b, c \in 1 .. Len(trace) :
           /\ trace[a].status = "ok"
           /\ trace[b].status = "failed" /\ trace[b].wrote # {}
           /\ trace[c].status = "failed" /\ trace[c].wrote = {}

\* C10: from empty output directories, in every state a Lat file exists
\* only with the Lon file of its name and a Lon file only with the
\* HakeSurvey file of its name; a file that failed has left none of its
\* outputs, the MVBS file only, or the MVBS and Lon files.
C10_PrefixOrder ==
    fresh =>
        /\ NamesIn("Lat") \subseteq NamesIn("Lon")
        /\ NamesIn("Lon") \subseteq NamesIn("HakeSurvey")
        /\ \A k \in 1 .. Len(trace) :
               trace[k].status = "failed" =>
                   LET name == Expected(trace[k].file)
                       left == { d \in {"HakeSurvey", "Lon", "Lat"} : name \in NamesIn(d) }
                   IN  left \in { {}, {"HakeSurvey"}, {"HakeSurvey", "Lon"} }

\* C10 witness: in the middle of the loop one failed file has left its MVBS
\* file only and another its MVBS and Lon files.
C10_Witness ==
    /\ fresh
    /\ pc = "loop"
    /\ \E a, b \in 1 .. Len(trace) :
           /\ trace[a].status = "failed"
           /\ trace[b].status = "failed"
           /\ Expected(trace[a].file) \in NamesIn("HakeSurvey") \ NamesIn("Lon")
           /\ Expected(trace[b].file) \in NamesIn("Lon") \ NamesIn("Lat")

\* the BinnedProduct files on disk
Products == { f \in files : Len(f.dir) = 2 /\ f.dir[2] = "HakeSurvey" }

\* no two BinnedProduct files cover overlapping time ranges
Apart ==
    \A f, g \in Products :
        f # g => \/ Max(Range(f.time)) < Min(Range(g.time))
                 \/ Max(Range(g.time)) < Min(Range(f.time))

\* C8: given per-file datasets on time coordinates that do not overlap,
\* with matching position tracks and in any file order, the Merger succeeds
\* and the time axis of its output is the union of the input times in
\* strictly ascending order (so without a duplicate), as long as the inputs
\* together; the attached longitude and latitude have a value slot for each
\* of its points and leave it as it is.
C8_MergedTimeAxis ==
    (pc # "merge" /\ Apart) =>
        /\ pc \in {"write", "done"}
        /\ Range(MVBS_ds.ping_time) = UNION { Range(f.time) : f \in Products }
        /\ \A a, b \in 1 .. Len(MVBS_ds.ping_time) :
               a < b => MVBS_ds.ping_time[a] < MVBS_ds.ping_time[b]
        /\ Len(MVBS_ds.ping_time) = Cardinality(UNION { Range(f.time) : f \in Products })
        /\ Len(MVBS_ds.longitude) = Len(MVBS_ds.ping_time)
        /\ Len(MVBS_ds.latitude) = Len(MVBS_ds.ping_time)

\* C8 witness: three datasets that do not overlap were merged, and the
\* order of their file names is not the order of their times.
C8_Witness ==
    /\ pc = "done"
    /\ Cardinality(Products) = 3
    /\ Apart
    /\ \E f, g \in Products :
           StrLess(f.name, g.name) /\ Min(Range(g.time)) < Min(Range(f.time))

=============================================================================
